---- MODULE Spec2Model ----
(***************************************************************************)
(* Sentinal-Dart-X robot firmware.                                         *)
(*                                                                         *)
(* The repository holds several firmware builds for the same ESP32 robot:  *)
(*   "teleop" : src/esp32_platformio_code/src/main.cpp, two FreeRTOS tasks *)
(*              (Task1MotorController, Task2ReadSensor) and five echo      *)
(*              interrupt handlers sharing the globals motion, echo_init   *)
(*              and echo_time;                                             *)
(*   "parser" : src/bianry parser/esp32.c, a single loop() that reads      *)
(*              CommandPacket structs from the serial buffer;              *)
(*   "esp32_code" : src/esp32_code/main.cpp, a single loop() that reads    *)
(*              3-byte struct command frames and pulses the steppers.      *)
(* The variable firmware records which build runs; it never changes.       *)
(***************************************************************************)
EXTENDS Integers, Sequences, FiniteSets, TLC

(***************************************************************************)
(* Bounds of the model (not program constants).                            *)
(***************************************************************************)
\* echo interrupts handled in one run of the teleop build
MaxEdges == 2
\* bytes the serial receive buffer of the parser build may hold
MaxRx == 6
\* bytes the serial receive buffer of the esp32_code build may hold
MaxRxA == 3

(***************************************************************************)
(* 32-bit machine words.  An unsigned long is kept as <<high, low>> 16-bit *)
(* halves; an int is an integer in IntMin..IntMax.                         *)
(***************************************************************************)
Half == 65536
HalfSign == 32768
IntMax == 2147483647
IntMin == (-IntMax) - 1

Word(hi, lo) == <<hi, lo>>

\* unsigned long + unsigned long (modulo 2^32): how micros() advances
Add32(x, y) ==
    LET lo == x[2] + y[2]
        hi == x[1] + y[1] + (lo \div Half)
    IN  <<hi % Half, lo % Half>>

\* a mis-compiled / mis-written subtraction that forgets the borrow
Sub32NoBorrow(x, y) ==
    <<(x[1] - y[1]) % Half, (x[2] - y[2]) % Half>>

\* unsigned long - unsigned long (modulo 2^32), as in micros() - echo_init[index]
Sub32(x, y) ==
    LET lo == x[2] - y[2]
        borrow == IF lo < 0 THEN 1 ELSE 0
        hi == x[1] - y[1] - borrow
    IN  <<hi % Half, lo % Half>>

\* conversion unsigned long -> int (int a = echo_time[0]): the same 32 bits
\* read as two's complement
ToInt(w) ==
    IF w[1] >= HalfSign THEN (w[1] - Half) * Half + w[2]
                        ELSE w[1] * Half + w[2]

\* int / 2 in C: truncation towards zero
CDiv2(b) == IF b >= 0 THEN b \div 2 ELSE (b + 1) \div 2

\* int + int on the 32-bit target (wrapping on overflow)
IntAdd(x, y) ==
    IF x > 0 /\ y > 0 /\ x > IntMax - y THEN (x - IntMax - 1) + (y - IntMax - 1)
    ELSE IF x < 0 /\ y < 0 /\ x < IntMin - y THEN (x - IntMin) + (y - IntMin)
    ELSE x + y

(***************************************************************************)
(* Pins and constants of the teleop build.                                 *)
(***************************************************************************)
EN == 23
DIR == 4
PUL == 5
EN2 == 27
DIR2 == 26
PUL2 == 25
GUN == 33
FIRE_RATE_MS == 1000
SPEED == 750
SPEED_REDUCTION == 1
TRIG_PIN == <<17, 18, 19, 21, 22>>
ECHO_PIN == <<16, 34, 35, 36, 39>>
WALL_LIMIT == 4000

LOW == "LOW"
HIGH == "HIGH"
\* an output pin the firmware has configured but not yet written
UNSET == "UNSET"

\* echo channels, indexed as in the source
Chans == 0..4

\* characters the serial link may deliver; "x" stands for every character
\* outside w, s, a, d, f, r, q
Chars == {"w", "s", "a", "d", "f", "r", "q", "x"}
\* '\0'
NUL == "NUL"

TeleopPins == {EN, DIR, EN2, DIR2, GUN} \cup {TRIG_PIN[k] : k \in 1..5}

VARIABLES
    firmware,    \* which build runs
    gpio,        \* level of every output pin of the build
    toneHz,      \* frequency of the square wave on PUL and PUL2 (0: none)
    motion,      \* char motion: decision of the sensor task
    old_motion,  \* char old_motion: decision the motor task applied last
    roam_en,     \* char roam_en: '1' in roam mode
    echo_init,   \* volatile unsigned long echo_init[5]
    echo_time,   \* volatile unsigned long echo_time[5]
    firelock,    \* int firelock (local of Task1MotorController)
    lastChar,    \* char lastChar (local of Task1MotorController)
    input,       \* char input: the character read last
    avail,       \* Serial.available() != 0 in the current iteration
    pcMotor,     \* position of Task1MotorController
    pcSensor,    \* position of Task2ReadSensor
    gunLowMs,    \* milliseconds the motor task slept with GUN asserted
    edges,       \* echo interrupts handled so far
    prevRead,    \* history: the character read before input
    ranged,      \* history: the sensor task has computed a decision
    roamCalls,   \* history: roam('r') calls since, in roam mode, the sensor
                 \* task changed its own decision from 'f' to 'r' (capped at
                 \* 2); -1 when it did not, or motion changed again, or a
                 \* character was read since
    now,         \* the microsecond counter micros() reads
    ticks,       \* history: clock advances so far
    elapsed,     \* history: per channel, the time that really passed since
                 \* its last rising edge was handled (<<>>: none handled)
    lastEdge,    \* history: <<index, level>> of the interrupt handled last
    rx,          \* framed builds: bytes waiting in the serial receive buffer
    pcLoop,      \* framed builds: position of loop()
    printed,     \* parser build: the message printed to Serial last
    velocity,    \* parser build: int velocity of processCommand, as computed
                 \* and printed last (0 before the first)
    writes       \* history, esp32_code build: the digitalWrite calls
                 \* <<pin, level>> made since the last frame was read

vars == <<firmware, gpio, toneHz, motion, old_motion, roam_en, echo_init,
          echo_time, firelock, lastChar, input, avail, pcMotor, pcSensor,
          gunLowMs, edges, prevRead, ranged, roamCalls, now, ticks, elapsed,
          lastEdge, rx, pcLoop, printed, velocity, writes>>

motorVars == <<gpio, toneHz, old_motion, roam_en, firelock, lastChar, input,
               avail, pcMotor, gunLowMs, prevRead>>
sensorVars == <<motion, pcSensor, ranged>>
echoVars == <<echo_init, echo_time, edges>>
clockVars == <<now, ticks, elapsed, lastEdge>>
teleopVars == <<toneHz, motion, old_motion, roam_en, echo_init, echo_time,
                firelock, lastChar, input, avail, pcMotor, pcSensor, gunLowMs,
                edges, prevRead, ranged, roamCalls, now, ticks, elapsed,
                lastEdge>>
parserVars == <<rx, pcLoop, printed, velocity, writes>>

digitalWrite(g, pin, level) == [g EXCEPT ![pin] = level]

(***************************************************************************)
(* esp32_platformio_code: the motor actuator.                              *)
(***************************************************************************)
\* void roam(char motion): the levels it leaves on the enable and direction
\* pins; an unknown motion only enables both channels
roam(g, m) ==
    LET en == digitalWrite(digitalWrite(g, EN, LOW), EN2, LOW)
    IN  CASE m = "f" -> digitalWrite(digitalWrite(en, DIR, HIGH), DIR2, LOW)
          [] m = "l" -> digitalWrite(digitalWrite(en, DIR, HIGH), DIR2, HIGH)
          [] m = "r" -> digitalWrite(digitalWrite(en, DIR, LOW), DIR2, LOW)
          [] OTHER   -> en

\* tone(PUL, hz); tone(PUL2, hz)
tone2(hz) == [p \in {PUL, PUL2} |-> hz]

\* the arm of the if / else-if chain of Task1MotorController that runs when
\* character c is read with lastChar = last and firelock = lock
Branch(c, last, lock) ==
    IF c = "w" /\ c # last THEN "w"
    ELSE IF c = "d" /\ c # last THEN "d"
    ELSE IF c = "a" /\ c # last THEN "a"
    ELSE IF c = "s" /\ c # last THEN "s"
    ELSE IF c = "f" /\ lock = 0 /\ c # last THEN "f"
    ELSE IF c = "r" /\ c # last THEN "r"
    ELSE IF c = "q" /\ c # last THEN "q"
    ELSE IF c # last THEN "other"
    ELSE "none"

\* the drive arm without its roam_en = '0'
DriveArmKeepsRoam(c, hz, dir1, dir2) ==
    /\ toneHz' = tone2(hz)
    /\ gpio' = digitalWrite(digitalWrite(digitalWrite(digitalWrite(gpio,
                   EN, LOW), DIR, dir1), EN2, LOW), DIR2, dir2)
    /\ firelock' = 0
    /\ lastChar' = c
    /\ pcMotor' = "guard"
    /\ UNCHANGED <<roam_en, old_motion, gunLowMs>>

\* the arms for w, d, a, s: leave roam mode, start both pulse trains, enable
\* both channels and set the two direction pins
DriveArm(c, hz, dir1, dir2) ==
    /\ roam_en' = "0"
    /\ toneHz' = tone2(hz)
    /\ gpio' = digitalWrite(digitalWrite(digitalWrite(digitalWrite(gpio,
                   EN, LOW), DIR, dir1), EN2, LOW), DIR2, dir2)
    /\ firelock' = 0
    /\ lastChar' = c
    /\ pcMotor' = "guard"
    /\ UNCHANGED <<old_motion, gunLowMs>>

\* the arm for f up to its first pin write: roam_en, firelock, EN
FireArm ==
    /\ roam_en' = "0"
    /\ firelock' = 1
    /\ gpio' = digitalWrite(gpio, EN, HIGH)
    /\ pcMotor' = "fire_en2"
    /\ UNCHANGED <<toneHz, lastChar, old_motion, gunLowMs>>

\* the arm for r
RoamArm(c) ==
    /\ roam_en' = "1"
    /\ firelock' = 0
    /\ lastChar' = c
    /\ pcMotor' = "guard"
    /\ UNCHANGED <<gpio, toneHz, old_motion, gunLowMs>>

\* the arm for q without its digitalWrite(EN2, HIGH)
StopArmLeavesEn2(c) ==
    /\ roam_en' = "0"
    /\ gpio' = digitalWrite(gpio, EN, HIGH)
    /\ firelock' = 0
    /\ lastChar' = c
    /\ pcMotor' = "guard"
    /\ UNCHANGED <<toneHz, old_motion, gunLowMs>>

\* the arm for q
StopArm(c) ==
    /\ roam_en' = "0"
    /\ gpio' = digitalWrite(digitalWrite(gpio, EN, HIGH), EN2, HIGH)
    /\ firelock' = 0
    /\ lastChar' = c
    /\ pcMotor' = "guard"
    /\ UNCHANGED <<toneHz, old_motion, gunLowMs>>

\* the last arm (any other accepted character): as q, firelock left alone
FallbackArm(c) ==
    /\ roam_en' = "0"
    /\ gpio' = digitalWrite(digitalWrite(gpio, EN, HIGH), EN2, HIGH)
    /\ lastChar' = c
    /\ pcMotor' = "guard"
    /\ UNCHANGED <<toneHz, firelock, old_motion, gunLowMs>>

\* no arm runs: the character repeats lastChar
IgnoredArm ==
    /\ pcMotor' = "guard"
    /\ UNCHANGED <<gpio, toneHz, roam_en, firelock, lastChar, old_motion,
                   gunLowMs>>

(***************************************************************************)
(* Task1MotorController, one action per step of its loop.                  *)
(***************************************************************************)
\* Serial.available() is 0: the block of lines 218-311 is skipped
MotorNoInput ==
    /\ firmware = "teleop" /\ pcMotor = "poll"
    /\ avail' = FALSE
    /\ pcMotor' = "guard"
    /\ UNCHANGED <<gpio, toneHz, old_motion, roam_en, firelock, lastChar,
                   input, gunLowMs, prevRead>>
    /\ UNCHANGED <<sensorVars, echoVars, clockVars, roamCalls, firmware,
                   parserVars>>

\* Serial.read() returns c and the if / else-if chain runs
MotorRead(c) ==
    /\ firmware = "teleop" /\ pcMotor = "poll"
    /\ avail' = TRUE
    /\ input' = c
    /\ prevRead' = input
    /\ LET b == Branch(c, lastChar, firelock)
       IN  CASE b = "w" -> DriveArm(c, SPEED, HIGH, LOW)
             [] b = "d" -> DriveArm(c, SPEED \div SPEED_REDUCTION, HIGH, HIGH)
             [] b = "a" -> DriveArm(c, SPEED \div SPEED_REDUCTION, LOW, LOW)
             [] b = "s" -> DriveArm(c, SPEED, LOW, HIGH)
             [] b = "f" -> FireArm
             [] b = "r" -> RoamArm(c)
             [] b = "q" -> StopArm(c)
             [] b = "other" -> FallbackArm(c)
             [] OTHER -> IgnoredArm
    /\ roamCalls' = -1
    /\ UNCHANGED <<sensorVars, echoVars, clockVars, firmware, parserVars>>

\* the fire arm without its digitalWrite(EN2, HIGH)
FireEn2Forgotten ==
    /\ firmware = "teleop" /\ pcMotor = "fire_en2"
    /\ pcMotor' = "fire_gun"
    /\ UNCHANGED <<gpio, toneHz, old_motion, roam_en, firelock, lastChar, input,
                   avail, gunLowMs, prevRead>>
    /\ UNCHANGED <<sensorVars, echoVars, clockVars, roamCalls, firmware,
                   parserVars>>

\* digitalWrite(EN2, HIGH) of the fire arm
FireEn2 ==
    /\ firmware = "teleop" /\ pcMotor = "fire_en2"
    /\ gpio' = digitalWrite(gpio, EN2, HIGH)
    /\ pcMotor' = "fire_gun"
    /\ UNCHANGED <<toneHz, old_motion, roam_en, firelock, lastChar, input,
                   avail, gunLowMs, prevRead>>
    /\ UNCHANGED <<sensorVars, echoVars, clockVars, roamCalls, firmware,
                   parserVars>>

\* digitalWrite(GUN, LOW)
FireGun ==
    /\ firmware = "teleop" /\ pcMotor = "fire_gun"
    /\ gpio' = digitalWrite(gpio, GUN, LOW)
    /\ gunLowMs' = 0
    /\ pcMotor' = "fire_hold"
    /\ UNCHANGED <<toneHz, old_motion, roam_en, firelock, lastChar, input,
                   avail, prevRead>>
    /\ UNCHANGED <<sensorVars, echoVars, clockVars, roamCalls, firmware,
                   parserVars>>

\* vTaskDelay(FIRE_RATE_MS / portTICK_PERIOD_MS), one tick per millisecond
FireHold ==
    /\ firmware = "teleop" /\ pcMotor = "fire_hold"
    /\ gunLowMs' = gunLowMs + FIRE_RATE_MS
    /\ pcMotor' = "fire_release"
    /\ UNCHANGED <<gpio, toneHz, old_motion, roam_en, firelock, lastChar,
                   input, avail, prevRead>>
    /\ UNCHANGED <<sensorVars, echoVars, clockVars, roamCalls, firmware,
                   parserVars>>

\* digitalWrite(GUN, HIGH); lastChar = input
FireRelease ==
    /\ firmware = "teleop" /\ pcMotor = "fire_release"
    /\ gpio' = digitalWrite(gpio, GUN, HIGH)
    /\ gunLowMs' = 0
    /\ lastChar' = input
    /\ pcMotor' = "guard"
    /\ UNCHANGED <<toneHz, old_motion, roam_en, firelock, input, avail,
                   prevRead>>
    /\ UNCHANGED <<sensorVars, echoVars, clockVars, roamCalls, firmware,
                   parserVars>>

\* if (roam_en == '1' && (old_motion != motion)); when false the iteration
\* ends with the 100 ms vTaskDelay
RoamGuard ==
    /\ firmware = "teleop" /\ pcMotor = "guard"
    /\ pcMotor' = IF roam_en = "1" /\ old_motion # motion THEN "assign"
                                                         ELSE "poll"
    /\ UNCHANGED <<gpio, toneHz, old_motion, roam_en, firelock, lastChar,
                   input, avail, gunLowMs, prevRead>>
    /\ UNCHANGED <<sensorVars, echoVars, clockVars, roamCalls, firmware,
                   parserVars>>

\* old_motion = motion (motion is read again)
RoamAssign ==
    /\ firmware = "teleop" /\ pcMotor = "assign"
    /\ old_motion' = motion
    /\ pcMotor' = "call"
    /\ UNCHANGED <<gpio, toneHz, roam_en, firelock, lastChar, input, avail,
                   gunLowMs, prevRead>>
    /\ UNCHANGED <<sensorVars, echoVars, clockVars, roamCalls, firmware,
                   parserVars>>

\* roam(motion) after the Serial.print calls (motion is read once more), then
\* the 100 ms vTaskDelay that ends the iteration
RoamCall ==
    /\ firmware = "teleop" /\ pcMotor = "call"
    /\ toneHz' = tone2(SPEED \div SPEED_REDUCTION)
    /\ gpio' = roam(gpio, motion)
    /\ pcMotor' = "poll"
    /\ UNCHANGED <<old_motion, roam_en, firelock, lastChar, input, avail,
                   gunLowMs, prevRead>>
    /\ roamCalls' = IF roamCalls \in {0, 1} /\ motion = "r" THEN roamCalls + 1
                                                           ELSE roamCalls
    /\ UNCHANGED <<sensorVars, echoVars, clockVars, firmware, parserVars>>

(***************************************************************************)
(* Task2ReadSensor and the echo interrupt handlers.                        *)
(***************************************************************************)
\* the decision of lines 160-182 from the five stored round-trip times
Decide(et) ==
    LET a == ToInt(et[0])
        b == ToInt(et[1])
        c == ToInt(et[2])
        d == ToInt(et[3])
        e == ToInt(et[4])
        center == c
        left == IntAdd(a, CDiv2(b))
        right == IntAdd(d, CDiv2(e))
    IN  IF center < WALL_LIMIT
        THEN IF left < right THEN "r" ELSE "r"
        ELSE "f"

\* a sensor task that also records its decision in old_motion
SensorDecideRecords ==
    /\ firmware = "teleop" /\ pcSensor = "read"
    /\ motion' = Decide(echo_time)
    /\ old_motion' = Decide(echo_time)
    /\ pcSensor' = "trig"
    /\ ranged' = TRUE
    /\ UNCHANGED <<gpio, toneHz, roam_en, firelock, lastChar, input, avail,
                   pcMotor, gunLowMs, prevRead, roamCalls>>
    /\ UNCHANGED <<echoVars, clockVars, firmware, parserVars>>

\* lines 160-182: read echo_time[0..4] and store the decision in motion
SensorDecide ==
    /\ firmware = "teleop" /\ pcSensor = "read"
    /\ motion' = Decide(echo_time)
    /\ pcSensor' = "trig"
    /\ ranged' = TRUE
    /\ roamCalls' = IF Decide(echo_time) = motion THEN roamCalls
                    ELSE IF ranged /\ roam_en = "1" /\ motion = "f" THEN 0
                    ELSE -1
    /\ UNCHANGED <<motorVars, echoVars, clockVars, firmware, parserVars>>

\* ultra_trig(): a 10 us HIGH pulse on each trigger pin, then the 10 ms
\* vTaskDelay
SensorTrig ==
    /\ firmware = "teleop" /\ pcSensor = "trig"
    /\ gpio' = [p \in DOMAIN gpio |->
                  IF \E k \in 1..5 : TRIG_PIN[k] = p THEN LOW ELSE gpio[p]]
    /\ pcSensor' = "read"
    /\ UNCHANGED <<toneHz, old_motion, roam_en, firelock, lastChar, input,
                   avail, pcMotor, gunLowMs, prevRead>>
    /\ UNCHANGED <<motion, ranged, echoVars, clockVars, roamCalls, firmware,
                   parserVars>>

\* echo_handler(index) when digitalRead(pins[index]) returns level and
\* micros() returns t
echo_handler(index, level, t) ==
    /\ echo_init' = IF level = HIGH THEN [echo_init EXCEPT ![index] = t]
                                    ELSE echo_init
    /\ echo_time' = IF level = LOW
                    THEN [echo_time EXCEPT ![index] = Sub32(t, echo_init[index])]
                    ELSE echo_time

\* timestamps micros() may return when an echo interrupt is handled
Stamps == {Word(0, 0), Word(0, WALL_LIMIT)}

\* pindex0ISR .. pindex4ISR: an edge on echo pin index is handled
EchoIrq(index, level, t) ==
    /\ firmware = "teleop" /\ edges < MaxEdges
    /\ echo_handler(index, level, t)
    /\ edges' = edges + 1
    /\ UNCHANGED <<motorVars, sensorVars, clockVars, roamCalls, firmware,
                   parserVars>>

(***************************************************************************)
(* bianry parser/esp32.c: the CommandPacket reader.                        *)
(***************************************************************************)
MOTOR_LEFT_PIN == 5
MOTOR_RIGHT_PIN == 6
GUN_TRIGGER_PIN == 7
\* '\n'
NEWLINE == 10
\* the midpoint subtracted from units
VELOCITY_ZERO == 32768

ParserPins == {MOTOR_LEFT_PIN, MOTOR_RIGHT_PIN, GUN_TRIGGER_PIN}

\* byte values the serial link may deliver to the parser build
Bytes == {0, 1, 2, NEWLINE}

\* the next multiple of align at or after off
AlignUp(off, align) == ((off + align - 1) \div align) * align

\* struct CommandPacket { uint8_t commandNumber; uint16_t units; uint8_t
\* terminator; } as the ESP32 compiler lays it out: every member at a multiple
\* of its own size, the struct padded to its widest member
OffCommandNumber == 0
OffUnits == AlignUp(OffCommandNumber + 1, 2)
OffTerminator == AlignUp(OffUnits + 2, 1)
SizeofCommandPacket == AlignUp(OffTerminator + 1, 2)

\* Serial.readBytes(reinterpret_cast<uint8_t*>(&cmd), sizeof(CommandPacket)):
\* the struct the first sizeof(CommandPacket) bytes of buf fill (little endian)
ReadStruct(buf) ==
    [commandNumber |-> buf[OffCommandNumber + 1],
     units         |-> buf[OffUnits + 1] + 256 * buf[OffUnits + 2],
     terminator    |-> buf[OffTerminator + 1]]

\* readCommandPacket without its terminator check
ValidPacketAny(cmd) == TRUE

\* the check of readCommandPacket on the struct it has read
ValidPacket(cmd) == cmd.terminator = NEWLINE

\* the subtraction carried out on 16 bits, as an unsigned short would
VelocityShort(units) == (units - VELOCITY_ZERO) % Half

\* int velocity = cmd.units - 32768: the uint16_t is promoted to int and the
\* subtraction is an int subtraction
Velocity(units) == IntAdd(units, -VELOCITY_ZERO)

\* processCommand whose case 0 leaves the gun pin alone
processCommandKeepsGun(g, cmd) ==
    CASE cmd.commandNumber = 0 ->
           digitalWrite(digitalWrite(g, MOTOR_LEFT_PIN, LOW),
               MOTOR_RIGHT_PIN, LOW)
      [] cmd.commandNumber = 1 ->
           IF cmd.units = 1 THEN digitalWrite(g, GUN_TRIGGER_PIN, HIGH)
                            ELSE digitalWrite(g, GUN_TRIGGER_PIN, LOW)
      [] cmd.commandNumber = 2 ->
           IF cmd.units = VELOCITY_ZERO THEN digitalWrite(g, MOTOR_LEFT_PIN, LOW)
                                        ELSE digitalWrite(g, MOTOR_LEFT_PIN, HIGH)
      [] cmd.commandNumber = 3 ->
           IF cmd.units = VELOCITY_ZERO THEN digitalWrite(g, MOTOR_RIGHT_PIN, LOW)
                                        ELSE digitalWrite(g, MOTOR_RIGHT_PIN, HIGH)
      [] OTHER -> g

\* processCommand up to its return or its delay(500): the pin levels
processCommand(g, cmd) ==
    CASE cmd.commandNumber = 0 ->
           digitalWrite(digitalWrite(digitalWrite(g, MOTOR_LEFT_PIN, LOW),
               MOTOR_RIGHT_PIN, LOW), GUN_TRIGGER_PIN, LOW)
      [] cmd.commandNumber = 1 ->
           IF cmd.units = 1 THEN digitalWrite(g, GUN_TRIGGER_PIN, HIGH)
                            ELSE digitalWrite(g, GUN_TRIGGER_PIN, LOW)
      [] cmd.commandNumber = 2 ->
           IF Velocity(cmd.units) = 0 THEN digitalWrite(g, MOTOR_LEFT_PIN, LOW)
                                      ELSE digitalWrite(g, MOTOR_LEFT_PIN, HIGH)
      [] cmd.commandNumber = 3 ->
           IF Velocity(cmd.units) = 0 THEN digitalWrite(g, MOTOR_RIGHT_PIN, LOW)
                                      ELSE digitalWrite(g, MOTOR_RIGHT_PIN, HIGH)
      [] OTHER -> g

\* the message text processCommand prints last (numbers left out)
Message(cmd) ==
    CASE cmd.commandNumber = 0 -> "Executing: STOP EVERYTHING"
      [] cmd.commandNumber = 1 ->
           IF cmd.units = 1 THEN "Executing: FIRE GUN"
                            ELSE "Executing: STOP FIRING"
      [] cmd.commandNumber = 2 -> "Executing: SET LEFT STEPPER at velocity "
      [] cmd.commandNumber = 3 -> "Executing: SET RIGHT STEPPER at velocity "
      [] OTHER -> "ERROR: Unknown Command Received!"

\* where loop() is after processCommand: in the delay(500) of a motor pulse,
\* or back at the poll
AfterCommand(cmd) ==
    IF cmd.commandNumber = 2 /\ Velocity(cmd.units) # 0
    THEN <<"delay", MOTOR_LEFT_PIN>>
    ELSE IF cmd.commandNumber = 3 /\ Velocity(cmd.units) # 0
    THEN <<"delay", MOTOR_RIGHT_PIN>>
    ELSE <<"poll">>

\* a byte arrives on the serial link
ParserArrive(b) ==
    /\ firmware = "parser" /\ Len(rx) < MaxRx
    /\ rx' = Append(rx, b)
    /\ UNCHANGED <<gpio, pcLoop, printed, velocity, writes, firmware, teleopVars>>

\* a readCommandPacket that reads whatever is buffered when it is short
ParserPollShortReads ==
    /\ firmware = "parser" /\ pcLoop = <<"poll">>
    /\ Len(rx) < SizeofCommandPacket
    /\ rx' = <<>>
    /\ UNCHANGED <<gpio, pcLoop, printed, velocity, writes, firmware, teleopVars>>

\* loop(): readCommandPacket finds fewer than sizeof(CommandPacket) bytes
ParserPollShort ==
    /\ firmware = "parser" /\ pcLoop = <<"poll">>
    /\ Len(rx) < SizeofCommandPacket
    /\ UNCHANGED vars

\* loop(): readCommandPacket reads one struct; processCommand runs when the
\* terminator is valid
ParserPollFrame ==
    /\ firmware = "parser" /\ pcLoop = <<"poll">>
    /\ Len(rx) >= SizeofCommandPacket
    /\ LET cmd == ReadStruct(SubSeq(rx, 1, SizeofCommandPacket))
       IN  /\ rx' = SubSeq(rx, SizeofCommandPacket + 1, Len(rx))
           /\ IF ValidPacket(cmd)
              THEN /\ gpio' = processCommand(gpio, cmd)
                   /\ pcLoop' = AfterCommand(cmd)
                   /\ printed' = Message(cmd)
                   /\ velocity' = IF cmd.commandNumber \in {2, 3}
                                  THEN Velocity(cmd.units) ELSE velocity
              ELSE /\ printed' = "ERROR: Invalid packet format!"
                   /\ UNCHANGED <<gpio, pcLoop, velocity>>
    /\ UNCHANGED <<writes, firmware, teleopVars>>

\* processCommand returning from delay(500) without its digitalWrite(pin, LOW)
ParserPulseLeftHigh ==
    /\ firmware = "parser" /\ pcLoop[1] = "delay"
    /\ pcLoop' = <<"poll">>
    /\ UNCHANGED <<gpio, rx, printed, velocity, writes, firmware, teleopVars>>

\* delay(500) ends: digitalWrite(pin, LOW) and processCommand returns
ParserPulseEnd ==
    /\ firmware = "parser" /\ pcLoop[1] = "delay"
    /\ gpio' = digitalWrite(gpio, pcLoop[2], LOW)
    /\ pcLoop' = <<"poll">>
    /\ UNCHANGED <<rx, printed, velocity, writes, firmware, teleopVars>>

(***************************************************************************)
(* esp32_code/main.cpp: the 3-byte struct command reader.                  *)
(***************************************************************************)
LEFT_PULSE_PIN == 14
LEFT_DIRECTION_PIN == 12
LEFT_ENABLE_PIN == 13
RIGHT_PULSE_PIN == 25
RIGHT_DIRECTION_PIN == 26
RIGHT_ENABLE_PIN == 27

LayoutAPins == {LEFT_PULSE_PIN, LEFT_DIRECTION_PIN, LEFT_ENABLE_PIN,
                RIGHT_PULSE_PIN, RIGHT_DIRECTION_PIN, RIGHT_ENABLE_PIN}

\* byte values the serial link may deliver to the esp32_code build
BytesA == 0..4

\* sizeof(struct command): three uint8_t members, no padding; also the
\* literal 3 of Serial.available() >= 3 and Serial.readBytes(.., 3)
SizeofCommand == 3

\* Serial.readBytes((char *)cmd, 3): the struct the first three bytes fill
read_command(buf) ==
    [command |-> buf[1], parameter |-> buf[2], newline |-> buf[3]]

\* the cases of the switch of pulse_motor
PulseParameters == 0..3

\* the direction pin, its level and the pulse pin of case parameter
PulseCase(parameter) ==
    CASE parameter = 0 ->
           [dir |-> LEFT_DIRECTION_PIN, level |-> HIGH, pul |-> LEFT_PULSE_PIN]
      [] parameter = 1 ->
           [dir |-> LEFT_DIRECTION_PIN, level |-> LOW, pul |-> LEFT_PULSE_PIN]
      [] parameter = 2 ->
           [dir |-> RIGHT_DIRECTION_PIN, level |-> HIGH, pul |-> RIGHT_PULSE_PIN]
      [] parameter = 3 ->
           [dir |-> RIGHT_DIRECTION_PIN, level |-> LOW, pul |-> RIGHT_PULSE_PIN]

\* exec_command whose switch falls into pulse_motor for every command
exec_commandAlwaysPulse(cmd) ==
    IF cmd.parameter \in PulseParameters
    THEN <<"direction", cmd.parameter>>
    ELSE <<"poll">>

\* exec_command up to the first digitalWrite: where loop() is after the
\* dispatch (stop_everything and toggle_nerf_gun do nothing)
exec_command(cmd) ==
    IF cmd.command = 2 /\ cmd.parameter \in PulseParameters
    THEN <<"direction", cmd.parameter>>
    ELSE <<"poll">>

\* a byte arrives on the serial link
LoopArrive(b) ==
    /\ firmware = "esp32_code" /\ Len(rx) < MaxRxA
    /\ rx' = Append(rx, b)
    /\ UNCHANGED <<gpio, pcLoop, printed, velocity, writes, firmware, teleopVars>>

\* loop(): Serial.available() >= 3 is false
LoopPollShort ==
    /\ firmware = "esp32_code" /\ pcLoop = <<"poll">>
    /\ Len(rx) < SizeofCommand
    /\ UNCHANGED vars

\* loop(): read_command(&cmd); exec_command(&cmd) up to the first pin write
LoopReadExec ==
    /\ firmware = "esp32_code" /\ pcLoop = <<"poll">>
    /\ Len(rx) >= SizeofCommand
    /\ rx' = SubSeq(rx, SizeofCommand + 1, Len(rx))
    /\ pcLoop' = exec_command(read_command(SubSeq(rx, 1, SizeofCommand)))
    /\ writes' = <<>>
    /\ UNCHANGED <<gpio, printed, velocity, firmware, teleopVars>>

\* pulse_motor without its direction write
PulseDirectionSkipped ==
    /\ firmware = "esp32_code" /\ pcLoop[1] = "direction"
    /\ pcLoop' = <<"pulse_low", pcLoop[2]>>
    /\ UNCHANGED <<gpio, writes, rx, printed, velocity, firmware, teleopVars>>

\* pulse_motor: digitalWrite(<direction pin>, <level>); delayMicroseconds(5)
PulseDirection ==
    /\ firmware = "esp32_code" /\ pcLoop[1] = "direction"
    /\ LET k == PulseCase(pcLoop[2])
       IN  /\ gpio' = digitalWrite(gpio, k.dir, k.level)
           /\ writes' = Append(writes, <<k.dir, k.level>>)
    /\ pcLoop' = <<"pulse_low", pcLoop[2]>>
    /\ UNCHANGED <<rx, printed, velocity, firmware, teleopVars>>

\* pulse_motor: digitalWrite(<pulse pin>, LOW); delayMicroseconds(3)
PulseLow ==
    /\ firmware = "esp32_code" /\ pcLoop[1] = "pulse_low"
    /\ LET k == PulseCase(pcLoop[2])
       IN  /\ gpio' = digitalWrite(gpio, k.pul, LOW)
           /\ writes' = Append(writes, <<k.pul, LOW>>)
    /\ pcLoop' = <<"pulse_high", pcLoop[2]>>
    /\ UNCHANGED <<rx, printed, velocity, firmware, teleopVars>>

\* pulse_motor: digitalWrite(<pulse pin>, HIGH); the command returns
PulseHigh ==
    /\ firmware = "esp32_code" /\ pcLoop[1] = "pulse_high"
    /\ LET k == PulseCase(pcLoop[2])
       IN  /\ gpio' = digitalWrite(gpio, k.pul, HIGH)
           /\ writes' = Append(writes, <<k.pul, HIGH>>)
    /\ pcLoop' = <<"poll">>
    /\ UNCHANGED <<rx, printed, velocity, firmware, teleopVars>>

(***************************************************************************)
(* The firmware as a whole.                                                *)
(***************************************************************************)
ZeroWords == [i \in Chans |-> Word(0, 0)]

TrigPins == {TRIG_PIN[k] : k \in 1..5}

\* the globals as declared, the tasks at the top of their loops (GUN driven
\* HIGH by Task1MotorController, trigger pins LOW by init_ultrasonic)
InitTeleopVars ==
    /\ toneHz = tone2(0)
    /\ motion = "f"
    /\ old_motion = "a"
    /\ roam_en = "0"
    /\ echo_init = ZeroWords
    /\ firelock = 0
    /\ lastChar = NUL
    /\ input = NUL
    /\ avail = FALSE
    /\ pcMotor = "poll"
    /\ pcSensor = "read"
    /\ gunLowMs = 0
    /\ edges = 0
    /\ prevRead = NUL
    /\ ranged = FALSE
    /\ roamCalls = -1
    /\ ticks = 0
    /\ elapsed = [i \in Chans |-> <<>>]
    /\ lastEdge = <<>>

InitGpio(fw) ==
    IF fw = "teleop"
    THEN [p \in TeleopPins |-> IF p = GUN THEN HIGH
                               ELSE IF p \in TrigPins THEN LOW ELSE UNSET]
    ELSE IF fw = "parser"
    THEN [p \in ParserPins |-> UNSET]
    ELSE [p \in LayoutAPins |->
            IF p \in {LEFT_ENABLE_PIN, RIGHT_ENABLE_PIN} THEN LOW ELSE HIGH]

\* setup() of the parser build has printed its greeting
InitParserVars ==
    /\ rx = <<>>
    /\ pcLoop = <<"poll">>
    /\ printed = "ESP32 Ready to Receive Binary Commands from Raspberry Pi."
    /\ velocity = 0
    /\ writes = <<>>

Init ==
    /\ firmware \in {"teleop", "parser", "esp32_code"}
    /\ gpio = InitGpio(firmware)
    /\ InitTeleopVars
    /\ echo_time = ZeroWords
    /\ now = Word(0, 0)
    /\ InitParserVars

MotorTask ==
    \/ MotorNoInput
    \/ \E c \in Chars : MotorRead(c)
    \/ FireEn2
    \/ FireGun
    \/ FireHold
    \/ FireRelease
    \/ RoamGuard
    \/ RoamAssign
    \/ RoamCall

SensorTask == SensorDecide \/ SensorTrig

EchoIsr == \E i \in Chans, level \in {HIGH, LOW}, t \in Stamps : EchoIrq(i, level, t)

ParserLoop ==
    \/ \E b \in Bytes : ParserArrive(b)
    \/ ParserPollShort
    \/ ParserPollFrame
    \/ ParserPulseEnd

LayoutALoop ==
    \/ \E b \in BytesA : LoopArrive(b)
    \/ LoopPollShort
    \/ LoopReadExec
    \/ PulseDirection
    \/ PulseLow
    \/ PulseHigh

Next == MotorTask \/ SensorTask \/ EchoIsr \/ ParserLoop \/ LayoutALoop

Spec == Init /\ [][Next]_vars

(***************************************************************************)
(* Steps of the teleop build, as the claims speak of them.                 *)
(***************************************************************************)
\* this step is the motor loop reading character c
ReadStep(c) ==
    /\ firmware = "teleop"
    /\ pcMotor = "poll" /\ pcMotor' # "poll"
    /\ avail' /\ input' = c

\* this step leaves every actuator output and the control state alone
NoActuation == UNCHANGED <<gpio, toneHz, roam_en, firelock, lastChar>>

\* this step performs what the command table gives for character c
Actuation(c) ==
    CASE c \in {"w", "s", "a", "d"} ->
           /\ gpio'[EN] = LOW /\ gpio'[EN2] = LOW
           /\ toneHz'[PUL] > 0 /\ toneHz'[PUL2] > 0
           /\ roam_en' = "0" /\ lastChar' = c
      [] c = "f" -> pcMotor' = "fire_en2" /\ firelock' = 1 /\ roam_en' = "0"
      [] c = "r" -> roam_en' = "1" /\ lastChar' = c
      [] OTHER ->
           /\ gpio'[EN] = HIGH /\ gpio'[EN2] = HIGH
           /\ roam_en' = "0" /\ lastChar' = c

\* C1 (as claimed): a character read twice in succession is not acted on the
\* second time, and a character read again after one different character is
\* accepted and acted on again
C1_Debounce ==
    [][\A c \in Chars :
         /\ (ReadStep(c) /\ input = c) => NoActuation
         /\ (ReadStep(c) /\ input \in Chars /\ input # c /\ prevRead = c)
               => Actuation(c)]_vars

\* C2: in an iteration that read a character other than 'r', accepted or
\* suppressed, roam_en is '0' and roam() is not reached; roam_en is '1' only
\* with 'r' the accepted character
C2_ManualPreemptsRoam ==
    firmware = "teleop" =>
       /\ (avail /\ input # "r") =>
             (roam_en = "0" /\ pcMotor \notin {"assign", "call"})
       /\ roam_en = "1" => (lastChar = "r" /\ input = "r")

\* C2 witness: roam had been entered and applied, then 'q' was read and the
\* iteration is over
C2_Witness ==
    /\ firmware = "teleop" /\ pcMotor = "poll"
    /\ avail /\ input = "q" /\ prevRead = "r"
    /\ old_motion = "r" /\ roam_en = "0"

\* C3 (as claimed): in roam mode, with no character read, once the sensor
\* task has changed the decision from Forward to Right, roam('r') is applied
\* once and not again while the decision stays Right
C3_RoamApplyOnce ==
    (firmware = "teleop" /\ roam_en = "1" /\ motion = "r") => roamCalls <= 1

\* this step accepts one of the drive characters
DriveAccepted ==
    \E c \in {"w", "a", "s", "d"} : ReadStep(c) /\ lastChar # c /\ lastChar' = c

\* C4, in every state: the gun is asserted only with both channels disabled,
\* only inside the fire arm, and for FIRE_RATE_MS before it is released
C4_FireSafe ==
    firmware = "teleop" =>
       /\ gpio[GUN] = LOW => (gpio[EN] = HIGH /\ gpio[EN2] = HIGH)
       /\ gpio[GUN] = LOW <=> pcMotor \in {"fire_hold", "fire_release"}
       /\ pcMotor = "poll" => gpio[GUN] = HIGH
       /\ pcMotor = "fire_hold" => gunLowMs = 0
       /\ pcMotor = "fire_release" => gunLowMs = FIRE_RATE_MS

\* C4, in every step: the gun is asserted only by the fire arm of an accepted
\* 'f' after both enables were driven HIGH, and a disabled channel is enabled
\* again only by an accepted w/a/s/d or by roam()
C4_FireStep ==
    /\ (firmware = "teleop" /\ gpio[GUN] # LOW /\ gpio'[GUN] = LOW) =>
          (pcMotor = "fire_gun" /\ input = "f" /\ firelock = 1)
    /\ (firmware = "teleop" /\ gpio[GUN] = LOW /\ gpio'[GUN] # LOW) =>
          (gpio'[GUN] = HIGH /\ gpio'[EN] = HIGH /\ gpio'[EN2] = HIGH
           /\ lastChar' = "f")
    /\ (firmware = "teleop" /\
        \E p \in {EN, EN2} : gpio[p] = HIGH /\ gpio'[p] # HIGH) =>
          (DriveAccepted \/ pcMotor = "call")

\* C4: fire sequencing
C4_FireSequencing == [](C4_FireSafe) /\ [][C4_FireStep]_vars

\* C4 witness: 'f' accepted after 'w' had enabled the channels; the gun has
\* been held and is about to be released, the sensor task and an echo
\* interrupt having run meanwhile
C4_Witness ==
    /\ firmware = "teleop" /\ pcMotor = "fire_release"
    /\ prevRead = "w" /\ gpio[GUN] = LOW /\ gunLowMs = FIRE_RATE_MS
    /\ gpio[EN] = HIGH /\ gpio[EN2] = HIGH
    /\ pcSensor = "trig" /\ edges > 0

\* C5 (as claimed): an 'f' that does not repeat the accepted character starts
\* a fire (no fire can be in progress when the loop reads)
C5_FireAcceptance ==
    [][(ReadStep("f") /\ lastChar # "f") =>
          (pcMotor' = "fire_en2" /\ gpio'[EN] = HIGH)]_vars

(***************************************************************************)
(* The pulse timer under a running clock: micros() advances by Tick and    *)
(* every echo interrupt reads it.                                          *)
(***************************************************************************)
\* clock advances in one run
MaxTicks == 2
\* echo interrupts handled in one run
MaxPulseEdges == 4

\* values of micros() when the tasks start
StartTimes == {Word(0, 0), Word(Half - 1, Half - 1)}
\* how far the clock moves between two events: 1 us, WALL_LIMIT us, 2^31 us
TickSteps == {Word(0, 1), Word(0, WALL_LIMIT), Word(HalfSign, 0)}

\* e + d without wrapping: the high half grows past 16 bits
WideAdd(e, d) ==
    LET lo == e[2] + d[2]
    IN  <<e[1] + d[1] + (lo \div Half), lo % Half>>

\* time passes: micros() moves on by d
Tick(d) ==
    /\ firmware = "teleop" /\ ticks < MaxTicks
    /\ now' = Add32(now, d)
    /\ ticks' = ticks + 1
    /\ elapsed' = [i \in Chans |->
                     IF elapsed[i] = <<>> THEN <<>> ELSE WideAdd(elapsed[i], d)]
    /\ lastEdge' = <<>>
    /\ UNCHANGED <<motorVars, sensorVars, echoVars, roamCalls, firmware,
                   parserVars>>

\* pindex0ISR .. pindex4ISR with micros() read from the clock
PulseEdge(index, level) ==
    /\ firmware = "teleop" /\ edges < MaxPulseEdges
    /\ echo_handler(index, level, now)
    /\ edges' = edges + 1
    /\ elapsed' = IF level = HIGH THEN [elapsed EXCEPT ![index] = <<0, 0>>]
                                  ELSE elapsed
    /\ lastEdge' = <<index, level>>
    /\ UNCHANGED <<now, ticks, motorVars, sensorVars, roamCalls, firmware,
                   parserVars>>

InitPulse ==
    /\ firmware = "teleop"
    /\ gpio = InitGpio(firmware)
    /\ InitTeleopVars
    /\ echo_time = ZeroWords
    /\ now \in StartTimes
    /\ InitParserVars

NextPulse ==
    \/ \E d \in TickSteps : Tick(d)
    \/ \E i \in Chans, level \in {HIGH, LOW} : PulseEdge(i, level)

SpecPulse == InitPulse /\ [][NextPulse]_vars

(***************************************************************************)
(* The roam decision on arbitrary stored readings.                         *)
(***************************************************************************)
\* round-trip times echo_time may hold: 0, WALL_LIMIT - 1, WALL_LIMIT,
\* 2^31 - 1, 2^31, 2^32 - 1
Readings ==
    {Word(0, 0), Word(0, WALL_LIMIT - 1), Word(0, WALL_LIMIT),
     Word(HalfSign - 1, Half - 1), Word(HalfSign, 0), Word(Half - 1, Half - 1)}

InitDecide ==
    /\ firmware = "teleop"
    /\ gpio = InitGpio(firmware)
    /\ InitTeleopVars
    /\ echo_time \in [Chans -> Readings]
    /\ now = Word(0, 0)
    /\ InitParserVars

SpecDecide == InitDecide /\ [][SensorTask]_vars

(***************************************************************************)
(* Claims on the parser build, the decision and the pulse timer.           *)
(***************************************************************************)
\* this step is readCommandPacket taking bytes out of the receive buffer
ParserConsumes == firmware = "parser" /\ Len(rx') < Len(rx)

\* this step runs processCommand on a StopAll packet
ParserStopAll ==
    /\ ParserConsumes
    /\ ReadStruct(rx).terminator = NEWLINE
    /\ ReadStruct(rx).commandNumber = 0

\* this step accepts 'q' or the fallback character
StopAccepted == \E c \in {"q", "x"} : ReadStep(c) /\ lastChar # c

\* C6 (as claimed): stop-all disables both channels and leaves the level of
\* the gun pin as it was
C6_StopAllFrame ==
    [][/\ StopAccepted =>
            /\ gpio'[EN] = HIGH /\ gpio'[EN2] = HIGH
            /\ gpio'[GUN] = gpio[GUN]
       /\ ParserStopAll =>
            /\ gpio'[MOTOR_LEFT_PIN] = LOW /\ gpio'[MOTOR_RIGHT_PIN] = LOW
            /\ gpio[GUN_TRIGGER_PIN] \in {LOW, HIGH} =>
                  gpio'[GUN_TRIGGER_PIN] = gpio[GUN_TRIGGER_PIN]]_vars

\* C6 (amended): 'q' and the fallback character disable both channels and
\* leave the gun pin as it was; commandId 0 of the parser build turns both
\* motor pins off and drives the gun pin LOW whatever its level was
C6_StopAllAmended ==
    [][/\ StopAccepted =>
            /\ gpio'[EN] = HIGH /\ gpio'[EN2] = HIGH
            /\ gpio'[GUN] = gpio[GUN]
            /\ toneHz' = toneHz /\ gpio'[DIR] = gpio[DIR]
            /\ gpio'[DIR2] = gpio[DIR2]
       /\ ParserStopAll =>
            /\ gpio'[MOTOR_LEFT_PIN] = LOW /\ gpio'[MOTOR_RIGHT_PIN] = LOW
            /\ gpio'[GUN_TRIGGER_PIN] = LOW
            /\ pcLoop' = <<"poll">>]_vars

\* C6 witness: the parser build has run StopAll
C6_Witness ==
    /\ firmware = "parser" /\ printed = "Executing: STOP EVERYTHING"
    /\ gpio[MOTOR_LEFT_PIN] = LOW /\ gpio[MOTOR_RIGHT_PIN] = LOW
    /\ gpio[GUN_TRIGGER_PIN] = LOW

\* C7: a struct read with a terminator other than '\n' is dropped whole: no
\* pin is written, processCommand does not run, exactly the bytes read leave
\* the buffer and the loop is back at its poll
C7_InvalidFraming ==
    [][(ParserConsumes /\ ReadStruct(rx).terminator # NEWLINE) =>
          /\ gpio' = gpio
          /\ pcLoop' = <<"poll">>
          /\ printed' = "ERROR: Invalid packet format!"
          /\ rx' = SubSeq(rx, SizeofCommandPacket + 1, Len(rx))]_vars

\* C7 witness: the gun had been switched on, then a badly framed struct was
\* read and dropped
C7_Witness ==
    /\ firmware = "parser" /\ printed = "ERROR: Invalid packet format!"
    /\ gpio[GUN_TRIGGER_PIN] = HIGH /\ rx = <<>>

\* C8 (as claimed): with a 4-byte frame [id, units low, units high, '\n'] at
\* the head of the buffer, a read takes exactly those 4 bytes and runs the
\* command they encode
C8_FrameLayout ==
    [][(ParserConsumes /\ rx[4] = NEWLINE) =>
          LET cmd == [commandNumber |-> rx[1], units |-> rx[2] + 256 * rx[3],
                      terminator |-> rx[4]]
          IN  /\ rx' = SubSeq(rx, 5, Len(rx))
              /\ printed' = Message(cmd)
              /\ gpio' = processCommand(gpio, cmd)]_vars

\* unsigned comparison of two words
ULt(x, y) == x[1] < y[1] \/ (x[1] = y[1] /\ x[2] < y[2])

\* C9 (as claimed): the decision just computed is Right when the stored center
\* reading is below WALL_LIMIT and Forward otherwise
C9_RoamDecision ==
    (firmware = "teleop" /\ pcSensor = "trig") =>
       motion = IF ULt(echo_time[2], Word(0, WALL_LIMIT)) THEN "r" ELSE "f"

\* C10, in every state: right after a falling edge of channel i is handled,
\* echo_time[i] is the time that passed since its rising edge was handled
C10_PulseState ==
    \A i \in Chans :
       (lastEdge = <<i, LOW>> /\ elapsed[i] # <<>> /\ elapsed[i][1] < Half) =>
          echo_time[i] = elapsed[i]

\* C10, in every step: an interrupt of channel i writes echo_init[i] (rising)
\* or echo_time[i] (falling) and nothing else
C10_PulseStep ==
    (edges' = edges + 1) =>
       LET i == lastEdge'[1]
           level == lastEdge'[2]
       IN  /\ \A j \in Chans \ {i} :
                 echo_init'[j] = echo_init[j] /\ echo_time'[j] = echo_time[j]
           /\ level = HIGH => (echo_init'[i] = now /\ echo_time' = echo_time)
           /\ level = LOW => echo_init' = echo_init

\* C10: the pulse timer
C10_PulseTimer == [](C10_PulseState) /\ [][C10_PulseStep]_vars

\* C10 witness: a second pair on channel 2 whose rising edge was handled at
\* 2^32 - 1 and whose falling edge one microsecond later, the counter having
\* wrapped to 0
C10_Witness ==
    /\ edges = 4 /\ lastEdge = <<2, LOW>>
    /\ echo_init[2] = Word(Half - 1, Half - 1) /\ now = Word(0, 0)
    /\ elapsed[2] = Word(0, 1) /\ echo_time[2] = Word(0, 1)

(***************************************************************************)
(* Claims on the esp32_code build.                                         *)
(***************************************************************************)
\* this step is read_command taking bytes out of the receive buffer
LoopReads == firmware = "esp32_code" /\ Len(rx') < Len(rx)

\* the pin writes a pulse command with parameter p is to make, in order:
\* direction of the selected channel, then its pulse pin LOW, then HIGH
ClaimedWrites(p) ==
    LET dir == IF p \in {0, 1} THEN LEFT_DIRECTION_PIN ELSE RIGHT_DIRECTION_PIN
        pul == IF p \in {0, 1} THEN LEFT_PULSE_PIN ELSE RIGHT_PULSE_PIN
        level == IF p \in {0, 2} THEN HIGH ELSE LOW
    IN  <<<<dir, level>>, <<pul, LOW>>, <<pul, HIGH>>>>

\* C11, in every state: the writes made so far for the command in progress are
\* a prefix of direction, pulse LOW, pulse HIGH on the selected channel; the
\* pulse pins rest HIGH between commands and the enable pins are never moved
C11_PulseState ==
    firmware = "esp32_code" =>
       /\ gpio[LEFT_ENABLE_PIN] = LOW /\ gpio[RIGHT_ENABLE_PIN] = LOW
       /\ pcLoop = <<"poll">> =>
             /\ gpio[LEFT_PULSE_PIN] = HIGH /\ gpio[RIGHT_PULSE_PIN] = HIGH
             /\ writes = <<>> \/ \E p \in 0..3 : writes = ClaimedWrites(p)
       /\ pcLoop[1] = "direction" => writes = <<>>
       /\ pcLoop[1] = "pulse_low" =>
             writes = SubSeq(ClaimedWrites(pcLoop[2]), 1, 1)
       /\ pcLoop[1] = "pulse_high" =>
             writes = SubSeq(ClaimedWrites(pcLoop[2]), 1, 2)

\* C11, in every step: a frame [2, p, _] with p in 0..3 starts the command for
\* p and any other parameter writes nothing; every change of a pin is the next
\* recorded write; a rising edge on a pulse pin is the last write of a
\* command, which returns having made exactly the three writes for p
C11_PulseStep ==
    /\ (LoopReads /\ rx[1] = 2) =>
          /\ gpio' = gpio /\ writes' = <<>>
          /\ pcLoop' = IF rx[2] \in 0..3 THEN <<"direction", rx[2]>>
                                         ELSE <<"poll">>
    /\ (firmware = "esp32_code" /\ gpio' # gpio) =>
          /\ Len(writes') = Len(writes) + 1
          /\ gpio' = digitalWrite(gpio, writes'[Len(writes')][1],
                                  writes'[Len(writes')][2])
    /\ (firmware = "esp32_code" /\
        \E pin \in {LEFT_PULSE_PIN, RIGHT_PULSE_PIN} :
           gpio[pin] = LOW /\ gpio'[pin] = HIGH) =>
          (pcLoop[1] = "pulse_high" /\ pcLoop' = <<"poll">>)
    /\ (firmware = "esp32_code" /\ pcLoop # <<"poll">> /\ pcLoop' = <<"poll">>) =>
          writes' = ClaimedWrites(pcLoop[2])

\* C11: the motor pulse of the esp32_code build
C11_MotorPulse == [](C11_PulseState) /\ [][C11_PulseStep]_vars

\* C11 witness: a pulse command with parameter 0 has returned after a pulse
\* with parameter 1 had set the left direction LOW
C11_Witness ==
    /\ firmware = "esp32_code" /\ pcLoop = <<"poll">> /\ rx = <<>>
    /\ writes = <<<<LEFT_DIRECTION_PIN, HIGH>>, <<LEFT_PULSE_PIN, LOW>>,
                  <<LEFT_PULSE_PIN, HIGH>>>>
    /\ gpio[LEFT_DIRECTION_PIN] = HIGH /\ gpio[LEFT_PULSE_PIN] = HIGH
    /\ gpio[RIGHT_DIRECTION_PIN] = LOW

(***************************************************************************)
(* Further claims on the teleop and parser builds.                         *)
(***************************************************************************)
\* C12: an accepted 'w', 's', 'a' or 'd' enables both channels with
\* (DIR, DIR2) = (HIGH, LOW), (LOW, HIGH), (LOW, LOW), (HIGH, HIGH); an
\* accepted 'q' or character outside the command letters disables both
\* channels and leaves both direction pins as they were
C12_Dispatch ==
    [][\A c \in Chars :
         (ReadStep(c) /\ lastChar # c) =>
            CASE c = "w" -> /\ gpio'[EN] = LOW /\ gpio'[EN2] = LOW
                            /\ gpio'[DIR] = HIGH /\ gpio'[DIR2] = LOW
              [] c = "s" -> /\ gpio'[EN] = LOW /\ gpio'[EN2] = LOW
                            /\ gpio'[DIR] = LOW /\ gpio'[DIR2] = HIGH
              [] c = "a" -> /\ gpio'[EN] = LOW /\ gpio'[EN2] = LOW
                            /\ gpio'[DIR] = LOW /\ gpio'[DIR2] = LOW
              [] c = "d" -> /\ gpio'[EN] = LOW /\ gpio'[EN2] = LOW
                            /\ gpio'[DIR] = HIGH /\ gpio'[DIR2] = HIGH
              [] c \in {"q", "x"} ->
                            /\ gpio'[EN] = HIGH /\ gpio'[EN2] = HIGH
                            /\ gpio'[DIR] = gpio[DIR] /\ gpio'[DIR2] = gpio[DIR2]
              [] OTHER -> TRUE]_vars

\* C12 witness: 'q' accepted after 's' had been accepted: channels disabled,
\* direction pins still those of 's'
C12_Witness ==
    /\ firmware = "teleop" /\ pcMotor = "guard"
    /\ input = "q" /\ lastChar = "q" /\ prevRead = "s"
    /\ gpio[EN] = HIGH /\ gpio[EN2] = HIGH
    /\ gpio[DIR] = LOW /\ gpio[DIR2] = HIGH

(***************************************************************************)
(* The parser build on single structs: every commandNumber of the switch   *)
(* and one outside it, every value of units.                               *)
(***************************************************************************)
\* a uint8_t
Byte == 0..255

\* values of commandNumber: the four cases and one for the default
CommandNumbers == 0..4

\* the struct as it arrives on the wire: the padding bytes are sent as 0
WireStruct(id, lo, hi, term) == <<id, 0, lo, hi, term, 0>>

\* pin levels loop() can find at its poll: as setup() left them, or after
\* both motors were pulsed and the gun switched on
RestLevels ==
    {InitGpio("parser"),
     [p \in ParserPins |-> IF p = GUN_TRIGGER_PIN THEN HIGH ELSE LOW]}

InitVelocity ==
    /\ firmware = "parser"
    /\ gpio \in RestLevels
    /\ InitTeleopVars
    /\ echo_time = ZeroWords
    /\ now = Word(0, 0)
    /\ rx \in {WireStruct(id, lo, hi, NEWLINE) :
                 id \in {2, 3}, lo \in Byte, hi \in Byte}
              \cup {WireStruct(id, lo, 0, term) :
                      id \in CommandNumbers, lo \in {0, 1}, term \in {0, NEWLINE}}
    /\ pcLoop = <<"poll">>
    /\ printed = "ESP32 Ready to Receive Binary Commands from Raspberry Pi."
    /\ velocity = 0
    /\ writes = <<>>

NextVelocity == ParserPollShort \/ ParserPollFrame \/ ParserPulseEnd

SpecVelocity == InitVelocity /\ [][NextVelocity]_vars

\* this step runs processCommand on a set-velocity packet for motor pin
SetVelocityStep(pin) ==
    /\ ParserConsumes
    /\ ReadStruct(rx).terminator = NEWLINE
    /\ ReadStruct(rx).commandNumber = IF pin = MOTOR_LEFT_PIN THEN 2 ELSE 3

\* C13: commandNumber 2 (3) with units 32768 drives the left (right) motor pin
\* LOW and returns; with any other units it drives the pin HIGH, holds it for
\* the delay, drives it LOW and returns; no other pin changes, and loop() is
\* never at its poll with a motor pin HIGH
C13_SetVelocity ==
    [][\A pin \in {MOTOR_LEFT_PIN, MOTOR_RIGHT_PIN} :
         /\ (SetVelocityStep(pin) /\ ReadStruct(rx).units = 32768) =>
               /\ gpio' = [gpio EXCEPT ![pin] = LOW]
               /\ pcLoop' = <<"poll">>
         /\ (SetVelocityStep(pin) /\ ReadStruct(rx).units # 32768) =>
               /\ gpio' = [gpio EXCEPT ![pin] = HIGH]
               /\ pcLoop' = <<"delay", pin>>
         /\ (firmware = "parser" /\ pcLoop = <<"delay", pin>>) =>
               /\ gpio[pin] = HIGH
               /\ gpio' = [gpio EXCEPT ![pin] = LOW]
               /\ pcLoop' = <<"poll">> /\ rx' = rx
         /\ (firmware = "parser" /\ pcLoop' = <<"poll">>) => gpio'[pin] # HIGH]_vars

\* C13 witness: the right motor pin is held HIGH by a set-velocity command
\* with a negative velocity, the left motor pin LOW and the gun pin HIGH
C13_Witness ==
    /\ firmware = "parser" /\ pcLoop = <<"delay", MOTOR_RIGHT_PIN>>
    /\ velocity < 0
    /\ gpio[MOTOR_RIGHT_PIN] = HIGH /\ gpio[MOTOR_LEFT_PIN] = LOW
    /\ gpio[GUN_TRIGGER_PIN] = HIGH

\* C14: the velocity decoded from a set-velocity packet is units - 32768, a
\* value of -32768..32767
C14_VelocityDecoding ==
    [][\A pin \in {MOTOR_LEFT_PIN, MOTOR_RIGHT_PIN} :
         SetVelocityStep(pin) =>
            /\ velocity' = ReadStruct(rx).units - 32768
            /\ velocity' \in -32768..32767
            /\ ReadStruct(rx).units = 0 => velocity' = -32768
            /\ ReadStruct(rx).units = 65535 => velocity' = 32767]_vars

\* C14 witness: units 0 was decoded to -32768 for the left motor
C14_Witness ==
    /\ firmware = "parser" /\ velocity = -32768
    /\ printed = "Executing: SET LEFT STEPPER at velocity "
    /\ pcLoop = <<"poll">> /\ gpio[MOTOR_LEFT_PIN] = LOW

\* C15: a struct with a valid terminator and a commandNumber outside 0..3
\* (parser build), and a frame with a command outside 0..2 (esp32_code
\* build), is consumed whole, writes no pin, computes no velocity, and leaves
\* loop() at its poll
C15_UnknownCommand ==
    [][/\ (ParserConsumes /\ ReadStruct(rx).terminator = NEWLINE
                          /\ ReadStruct(rx).commandNumber \notin 0..3) =>
             /\ gpio' = gpio /\ velocity' = velocity
             /\ pcLoop' = <<"poll">>
             /\ printed' = "ERROR: Unknown Command Received!"
             /\ rx' = SubSeq(rx, SizeofCommandPacket + 1, Len(rx))
       /\ (LoopReads /\ rx[1] \notin 0..2) =>
             /\ gpio' = gpio /\ writes' = <<>>
             /\ pcLoop' = <<"poll">>
             /\ rx' = SubSeq(rx, SizeofCommand + 1, Len(rx))]_vars

\* C15 witness: the parser build, its gun switched on, has reported an
\* unknown command and is back at its poll
C15_Witness ==
    /\ firmware = "parser" /\ printed = "ERROR: Unknown Command Received!"
    /\ pcLoop = <<"poll">> /\ gpio[GUN_TRIGGER_PIN] = HIGH

\* this step changes nothing the firmware owns and takes no byte out of the
\* receive buffer (bytes may arrive)
NothingRead ==
    /\ Len(rx') >= Len(rx) /\ SubSeq(rx', 1, Len(rx)) = rx
    /\ UNCHANGED <<gpio, pcLoop, printed, velocity, writes>>

\* C16, in every state: with fewer bytes buffered than one read takes, the
\* poll of loop() can complete as it stands, without a further byte
C16_PollNeverWaits ==
    /\ (firmware = "parser" /\ pcLoop = <<"poll">>
        /\ Len(rx) < SizeofCommandPacket) => ENABLED ParserPollShort
    /\ (firmware = "esp32_code" /\ pcLoop = <<"poll">>
        /\ Len(rx) < SizeofCommand) => ENABLED LoopPollShort

\* C16, in every step: while loop() polls with fewer bytes buffered than one
\* read takes, no byte is consumed, no command runs and no pin is written;
\* bytes leave the buffer only when a whole frame is buffered, and then
\* exactly one frame of them, from the front
C16_PollStep ==
    /\ (firmware = "parser" /\ pcLoop = <<"poll">>
        /\ Len(rx) < SizeofCommandPacket) => NothingRead
    /\ (firmware = "esp32_code" /\ pcLoop = <<"poll">>
        /\ Len(rx) < SizeofCommand) => NothingRead
    /\ ParserConsumes =>
          /\ Len(rx) >= SizeofCommandPacket
          /\ rx' = SubSeq(rx, SizeofCommandPacket + 1, Len(rx))
    /\ LoopReads =>
          /\ Len(rx) >= SizeofCommand
          /\ rx' = SubSeq(rx, SizeofCommand + 1, Len(rx))

\* C16: insufficient data
C16_InsufficientData == [](C16_PollNeverWaits) /\ [][C16_PollStep]_vars

\* C16 witness: the parser build has run a command and polls with one byte
\* fewer than a struct buffered
C16_Witness ==
    /\ firmware = "parser" /\ pcLoop = <<"poll">>
    /\ Len(rx) = SizeofCommandPacket - 1
    /\ printed = "Executing: FIRE GUN" /\ gpio[GUN_TRIGGER_PIN] = HIGH

\* C17 (as claimed): the step that calls roam(motion) and ends the iteration
\* passes roam() the value old_motion holds, under every interleaving with
\* the sensor task
C17_Bookkeeping ==
    [][(firmware = "teleop" /\ pcMotor = "call" /\ pcMotor' = "poll") =>
          old_motion' = motion]_vars

(***************************************************************************)
(* The teleop build with a decision that has settled: the sensor task has  *)
(* ranged and no further echo edge arrives.                                 *)
(***************************************************************************)
\* the decisions roam() is given
Decisions == {"f", "r"}

\* the state once the sensor task has stored its first decision dec: for
\* 'f' after a rising edge at 0 and a falling edge at WALL_LIMIT on channel
\* 2, for 'r' with no edge handled yet; the motor task has not polled yet
SettledOn(dec) ==
    /\ motion = dec
    /\ echo_time = IF dec = "f"
                   THEN [ZeroWords EXCEPT ![2] = Word(0, WALL_LIMIT)]
                   ELSE ZeroWords
    /\ edges = IF dec = "f" THEN 2 ELSE 0
    /\ ranged = TRUE
    /\ pcSensor = "read"
    /\ toneHz = tone2(0)
    /\ old_motion = "a"
    /\ roam_en = "0"
    /\ echo_init = ZeroWords
    /\ firelock = 0
    /\ lastChar = NUL
    /\ input = NUL
    /\ avail = FALSE
    /\ pcMotor = "poll"
    /\ gunLowMs = 0
    /\ prevRead = NUL
    /\ roamCalls = -1
    /\ ticks = 0
    /\ elapsed = [i \in Chans |-> <<>>]
    /\ lastEdge = <<>>

InitRoamEntry ==
    /\ firmware = "teleop"
    /\ gpio = InitGpio(firmware)
    /\ \E dec \in Decisions : SettledOn(dec)
    /\ now = Word(0, 0)
    /\ InitParserVars

NextRoamEntry == MotorTask \/ SensorTask

SpecRoamEntry == InitRoamEntry /\ [][NextRoamEntry]_vars

\* C18 (as claimed): at the end of an iteration that accepted 'r', the
\* decision not having changed, both channels are enabled and the direction
\* pins are those of the decision
C18_RoamTakesOver ==
    (firmware = "teleop" /\ pcMotor = "poll" /\ avail /\ input = "r"
     /\ prevRead # "r") =>
       /\ gpio[EN] = LOW /\ gpio[EN2] = LOW
       /\ gpio[DIR] = (IF motion = "f" THEN HIGH ELSE LOW)
       /\ gpio[DIR2] = LOW

\* pins of the motor channels and the gun
ActuatorPins == {EN, DIR, EN2, DIR2, GUN}

\* C19, in every state: the motor task can take its next step whatever the
\* sensor task and the echo handlers have or have not done
C19_MotorNeverWaits == firmware = "teleop" => ENABLED MotorTask

\* C19, in every step: a step that is not the motor task's (its position
\* stays) leaves the actuator pins, the pulse trains, roam_en, old_motion and
\* the motor task's locals alone and changes at most the trigger pins,
\* echo_init, echo_time and motion; a step of the motor task leaves the
\* trigger pins, echo_init, echo_time and motion alone
C19_WriterStep ==
    /\ (firmware = "teleop" /\ pcMotor' = pcMotor) =>
          /\ \A p \in ActuatorPins : gpio'[p] = gpio[p]
          /\ UNCHANGED <<toneHz, roam_en, old_motion, firelock, lastChar,
                         input, avail, gunLowMs>>
    /\ (firmware = "teleop" /\ pcMotor' # pcMotor) =>
          /\ \A p \in TrigPins : gpio'[p] = gpio[p]
          /\ UNCHANGED <<motion, echo_init, echo_time, pcSensor>>

\* C19: single writer of actuator state
C19_SingleWriter == [](C19_MotorNeverWaits) /\ [][C19_WriterStep]_vars

\* C19 witness: in roam mode the motor task is between old_motion = motion
\* and roam(motion) while the sensor task has changed motion to 'r' and an
\* echo interrupt has stored a round-trip time
C19_Witness ==
    /\ firmware = "teleop" /\ pcMotor = "call" /\ roam_en = "1"
    /\ old_motion = "f" /\ motion = "r" /\ pcSensor = "trig"
    /\ edges > 0 /\ echo_time[2] # Word(0, 0) /\ gpio[EN] = UNSET

====
